---- MODULE Spec2Model ----
(***************************************************************************)
(* External photo-evaporation of a radially discretised disc               *)
(* (DiscEvolution/photoevaporation.py).                                    *)
(*                                                                         *)
(* Numbers are numpy float64 values.  They are modelled as exact rationals *)
(* extended with the IEEE specials inf, -inf and nan, so that a division   *)
(* by zero yields what numpy yields and a comparison with nan is false.    *)
(* Rounding is not modelled, and the sign of a zero is not modelled (a     *)
(* zero divisor counts as +0).                                             *)
(*                                                                         *)
(* Units: lengths in AU, areas in units of pi*AU^2, rates handed back by   *)
(* the rate providers in units of 1e-10 Msun/yr.                           *)
(***************************************************************************)
EXTENDS Integers, Sequences, FiniteSets, TLC

\* ------------------------------------------------------------------ bounds
MaxCalls == 3      \* number of __call__ invocations explored in one run
Sigma0Set == {0, 1, 2}      \* initial surface densities of an annulus
DtSet == {0, 1, 10, 40, 400} \* the timesteps dt handed to __call__
MaxMag == 12       \* a call is explored from discs whose densities and dust
                   \* fractions are fractions of numerator and denominator
                   \* up to this size (or inf, nan)

\* ---------------------------------------------------------- unit constants
Msun_2pi == 2      \* Msun / (2*pi): Msun/yr -> mass per dynamical time
yr_Msun == 3       \* yr / Msun: back to Msun/yr for the rate history
Mjup == 2          \* Jupiter mass, the unit of the integrated-mass key
FloorRate == 1     \* 1e-10 Msun/yr, the rate put where the table has none


\* ------------------------------------------------------ float64 arithmetic
Abs(x) == IF x < 0 THEN -x ELSE x

RECURSIVE GCD(_, _)
GCD(a, b) == IF b = 0 THEN a ELSE GCD(b, a % b)

Fin(n, d) ==
    LET g == GCD(Abs(n), Abs(d))
        s == IF d < 0 THEN -1 ELSE 1
    IN [k |-> "fin", n |-> (s * n) \div g, d |-> Abs(d) \div g]

Num(n) == [k |-> "fin", n |-> n, d |-> 1]
Zero == Num(0)
One == Num(1)
nan == [k |-> "nan", n |-> 0, d |-> 1]
inf == [k |-> "inf", n |-> 0, d |-> 1]
ninf == [k |-> "ninf", n |-> 0, d |-> 1]

IsNan(a) == a.k = "nan"
IsFin(a) == a.k = "fin"

Sgn(a) ==
    CASE a.k = "inf" -> 1
      [] a.k = "ninf" -> -1
      [] a.k = "nan" -> 0
      [] OTHER -> IF a.n > 0 THEN 1 ELSE IF a.n < 0 THEN -1 ELSE 0

OfSign(s) == IF s > 0 THEN inf ELSE IF s < 0 THEN ninf ELSE nan

FNeg(a) ==
    CASE a.k = "fin" -> [a EXCEPT !.n = -a.n]
      [] a.k = "inf" -> ninf
      [] a.k = "ninf" -> inf
      [] OTHER -> nan

FAdd(a, b) ==
    IF IsNan(a) \/ IsNan(b) THEN nan
    ELSE IF IsFin(a) /\ IsFin(b)
         THEN LET g == GCD(a.d, b.d)
              IN Fin(a.n * (b.d \div g) + b.n * (a.d \div g), (a.d \div g) * b.d)
    ELSE IF IsFin(a) THEN b
    ELSE IF IsFin(b) THEN a
    ELSE IF a.k = b.k THEN a ELSE nan

FSub(a, b) == FAdd(a, FNeg(b))

FMul(a, b) ==
    IF IsNan(a) \/ IsNan(b) THEN nan
    ELSE IF IsFin(a) /\ IsFin(b)
         THEN LET x == Fin(a.n, b.d)
                  y == Fin(b.n, a.d)
              IN [k |-> "fin", n |-> x.n * y.n, d |-> x.d * y.d]
    ELSE OfSign(Sgn(a) * Sgn(b))

FDiv(a, b) ==
    IF IsNan(a) \/ IsNan(b) THEN nan
    ELSE IF IsFin(a) /\ IsFin(b)
         THEN IF b.n = 0 THEN OfSign(Sgn(a))
              ELSE LET x == Fin(a.n, b.n)
                       y == Fin(b.d, a.d)
                   IN [k |-> "fin", n |-> x.n * y.n, d |-> x.d * y.d]
    ELSE IF IsFin(a) THEN Zero
    ELSE IF IsFin(b) THEN OfSign(Sgn(a) * (IF b.n < 0 THEN -1 ELSE 1))
    ELSE nan

\* a > b, a >= b and a == b as numpy compares: false when either is nan
FGt(a, b) ==
    IF IsNan(a) \/ IsNan(b) \/ a = b THEN FALSE
    ELSE IF a.k = "inf" \/ b.k = "ninf" THEN TRUE
    ELSE IF a.k = "ninf" \/ b.k = "inf" THEN FALSE
    ELSE a.n * b.d > b.n * a.d

FEq(a, b) == ~IsNan(a) /\ ~IsNan(b) /\ a = b
FGe(a, b) == FEq(a, b) \/ FGt(a, b)

FMin(a, b) == IF IsNan(a) \/ IsNan(b) THEN nan ELSE IF FGt(a, b) THEN b ELSE a

\* exact square root of a perfect square (the grid is chosen so that every
\* root taken is one)
ISqrt(n) == CHOOSE x \in 0..n : x * x = n
FSqrt(a) == Fin(ISqrt(a.n), ISqrt(a.d))

\* an array held in memory: every entry evaluated once
Arr(f) == f \o <<>>

\* a local variable: With([x \in {v} |-> body]) is body with x bound to the
\* value v, computed once
With(f) == f[CHOOSE x \in DOMAIN f : TRUE]

\* np.sum over a sequence
RECURSIVE SumTo(_, _)
SumTo(f, n) == IF n = 0 THEN Zero ELSE FAdd(SumTo(f, n - 1), f[n])
FSum(f) == SumTo(f, Len(f))

\* np.cumsum(x[::-1])[::-1]: entry i is the sum of the entries i..N
RECURSIVE SumFrom(_, _)
SumFrom(f, i) == IF i > Len(f) THEN Zero ELSE FAdd(f[i], SumFrom(f, i + 1))
\* (the sum taken from the inner edge instead)
RevCumsum_fwd(f) == Arr([i \in 1..Len(f) |-> SumTo(f, i)])
RevCumsum(f) == Arr([i \in 1..Len(f) |-> SumFrom(f, i)])

\* np.cumsum(x)
Cumsum(f) == Arr([i \in 1..Len(f) |-> SumTo(f, i)])

\* x[mask]: the entries of x where the boolean mask holds, in order
RECURSIVE CompressTo(_, _, _)
CompressTo(f, mask, n) ==
    IF n = 0 THEN <<>>
    ELSE IF mask[n] THEN Append(CompressTo(f, mask, n - 1), f[n])
    ELSE CompressTo(f, mask, n - 1)
Compress(f, mask) == CompressTo(f, mask, Len(f))

\* np.concatenate((x, np.zeros(n - np.size(x))))
PadZeros(f, n) == f \o [i \in 1..(n - Len(f)) |-> Zero]

Count(mask) == Cardinality({i \in 1..Len(mask) : mask[i]})

\* -------------------------------------------------------------------- grid
\* disc.R_edge (N+1 values, increasing) and disc.R (a radius inside each
\* annulus), in AU, inner to outer
R_edge == <<0, 3, 5, 10>>
R == <<Num(1), Num(4), Num(9)>>
NCells == Len(R)
Cells == 1..NCells

\* dA = pi * (Re[1:]**2 - Re[:-1]**2), Re = R_edge * AU
dA == [i \in Cells |-> Num(R_edge[i + 1] * R_edge[i + 1] - R_edge[i] * R_edge[i])]

VARIABLES
    kind,       \* class of the provider: "Fixed", "FRIED_S", "FRIED_MS", "FRIED_M"
    table,      \* which rate table the FRIED provider interpolates
    dusty,      \* isinstance(disc, DustyDisc)
    Sigma,      \* disc._Sigma
    eps,        \* disc._eps, the two dust mass fractions
    Mdot,       \* self._Mdot: [scalar |-> BOOLEAN, v |-> values]
    amax,       \* self._amax
    Mwind_cum,  \* disc._Mwind_cum
    err,        \* the exception that ended the last call, or "none"
    ncalls,     \* calls made
    last        \* what the last call computed (its locals)

vars == <<kind, table, dusty, Sigma, eps, Mdot, amax, Mwind_cum, err, ncalls, last>>

\* -------------------------------------------------------------------- disc
\* disc.Sigma_G: the gas surface density (all of Sigma on a disc without dust)
Sigma_G(sig, ep) ==
    Arr([i \in Cells |->
        IF dusty THEN FMul(sig[i], FSub(One, FAdd(ep[1][i], ep[2][i]))) ELSE sig[i]])

\* disc.Sigma_D: the surface density of each of the two dust populations
Sigma_D(sig, ep) == Arr([p \in 1..2 |-> Arr([i \in Cells |-> FMul(sig[i], ep[p][i])])])

\* disc.integ_dust_frac
integ_dust_frac(ep) == Arr([i \in Cells |-> FAdd(ep[1][i], ep[2][i])])

\* disc.grain_size[1,:], the size of the larger population (cm)
grain_size == [i \in Cells |-> Num(20)]

\* disc._p, the power-law index of the size distribution
DustP == 3

\* disc.H, disc.cs, disc._rho_s, disc.star.M
H == [i \in Cells |-> FMul(Fin(3, 4), R[i])]
cs == [i \in Cells |-> Fin(1, i)]
rho_s == One
Mstar == One

\* --------------------------------------------------------------- providers
Tables == {"rise", "fall", "peak", "none"}
TableKinds == {"FRIED_S", "FRIED_MS", "FRIED_M"}

\* FRIED_Rates.PE_rate((key, R)): a pure function of the key (surface density
\* or integrated mass) and the radius; nan where the key is off the grid.
PE_rate(tab, key, i) ==
    IF ~IsFin(key) \/ FGt(One, key) \/ FGt(key, Num(50)) \/ tab = "none" THEN nan
    ELSE CASE tab = "rise" -> Num(i)
           [] tab = "fall" -> Num(NCells + 1 - i)
           [] OTHER -> IF i = 2 THEN Num(NCells + 2) ELSE Num(i)

\* final_rates[norate] = 1e-10
FloorNan(x) == IF IsNan(x) THEN Num(FloorRate) ELSE x

\* annulus gas masses: dM_gas = disc.Sigma_G * dA
AnnulusMass(sig, ep) ==
    LET sg == Sigma_G(sig, ep) IN Arr([i \in Cells |-> FMul(sg[i], dA[i])])

NotEmpty(sig, ep) ==
    LET sg == Sigma_G(sig, ep) IN Arr([i \in Cells |-> FGt(sg[i], Zero)])

\* self.mass_loss_rate(disc, not_empty), in Msun/yr.  The Fixed provider hands
\* back one entry per non-empty annulus, the FRIED providers one per annulus.
mass_loss_rate(sig, ep, not_empty) ==
    IF kind = "Fixed"
    THEN Arr([j \in 1..Count(not_empty) |-> Mdot.v[1]])
    ELSE LET integ_mass == Cumsum(AnnulusMass(sig, ep))
             key == IF kind = "FRIED_M"
                    THEN Arr([i \in Cells |-> FDiv(integ_mass[i], Num(Mjup))])
                    ELSE Sigma_G(sig, ep)
         IN Arr([i \in Cells |->
                IF not_empty[i] THEN FloorNan(PE_rate(table, key[i], i)) ELSE Zero])

\* the index of the last True of a mask, 0 when there is none
LastTrue(mask) ==
    IF Count(mask) = 0 THEN 0
    ELSE CHOOSE i \in 1..Len(mask) : mask[i] /\ \A j \in (i + 1)..Len(mask) : ~mask[j]

\* unweighted_rates(disc, Track): the raw rates in code units, the annulus
\* masses, and the rate history after the tracking step.  x[mask] raises
\* IndexError when the mask is not as long as x, and x[mask][-1] when no
\* entry is selected.
unweighted_rates(sig, ep, Track) ==
    With([not_empty \in {NotEmpty(sig, ep)} |->
    With([rate \in {mass_loss_rate(sig, ep, not_empty)} |->
    With([dM_dot \in {Arr([j \in 1..Len(rate) |-> FMul(rate[j], Num(Msun_2pi))])} |->
    With([raised \in {Track /\ (Len(dM_dot) # NCells \/ Count(not_empty) = 0)} |->
        [raised |-> raised,
         dM_dot |-> dM_dot,
         dM_gas |-> AnnulusMass(sig, ep),
         Mdot |-> IF Track /\ ~raised
                  THEN [scalar |-> FALSE,
                        v |-> Append(Mdot.v, FMul(dM_dot[LastTrue(not_empty)],
                                                  Num(yr_Msun)))]
                  ELSE Mdot]])])])])

\* get_timescale(disc, Track), given the rates of unweighted_rates
Dt_R_of(dM_gas, dM_evap, not_empty) ==
    LET m == Compress(dM_gas, not_empty)
        r == Compress(dM_evap, not_empty)
    IN PadZeros([j \in 1..Len(m) |-> FDiv(m[j], r[j])], NCells)

get_timescale(sig, ep, ur) ==
    With([Dt_R \in {Dt_R_of(ur.dM_gas, ur.dM_dot, NotEmpty(sig, ep))} |->
        [dM_evap |-> PadZeros(ur.dM_dot, NCells),
         dM_gas |-> ur.dM_gas,
         M_tot |-> RevCumsum(ur.dM_gas),
         Dt_R |-> Dt_R,
         Dt |-> RevCumsum(Dt_R)]])

\* x[j] for a negative or zero Python index j into a sequence of NCells
PyIndex(j) == IF j < 0 THEN NCells + j + 1 ELSE j + 1

\* the divisor of the marginal cell's factor: Dt[half_empty]-Dt[half_empty+1]
MarginalSpan(Dt, half_empty) ==
    FSub(Dt[PyIndex(half_empty)], Dt[PyIndex(half_empty + 1)])

\* timescale_remove(disc, dt), given the timescales of get_timescale
timescale_remove(sig, ts, dt) ==
    With([excess_t \in {Arr([i \in Cells |-> FSub(dt, ts.Dt[i])])} |->
    With([empty \in {Arr([i \in Cells |-> FGt(excess_t[i], Zero)])} |->
    With([sig1 \in {Arr([i \in Cells |-> IF empty[i] THEN Zero ELSE sig[i]])} |->
    With([half_empty \in {-(Count(empty) + 1)} |->
    With([h \in {PyIndex(half_empty)} |->
        [empty |-> empty,
         marginal |-> IF Count(empty) < NCells THEN h ELSE 0,
         Sigma |-> IF Count(empty) < NCells
                   THEN [sig1 EXCEPT ![h] =
                            FMul(sig1[h],
                                 FDiv(FMul(Num(-1), excess_t[h]),
                                      MarginalSpan(ts.Dt, half_empty)))]
                   ELSE sig1]])])])])])

\* ------------------------------------------------- optically thin weighting
Reverse(f) == Arr([j \in 1..Len(f) |-> f[Len(f) + 1 - j]])

\* np.argmax(x): the first (0-based) index that holds the maximum
ArgMax(f) ==
    (CHOOSE j \in 1..Len(f) :
        /\ \A l \in 1..Len(f) : ~FGt(f[l], f[j])
        /\ \A l \in 1..(j - 1) : FGt(f[j], f[l])) - 1

\* R**(3/2)
Pow32(r) == LET q == FSqrt(r) IN FMul(q, FMul(q, q))

\* optically_thin_weighting(disc): i_max (0-based), the weights and the
\* effective rates
optically_thin_weighting(sig, ep) ==
    With([ur \in {unweighted_rates(sig, ep, FALSE)} |->
    With([Mdot_raw \in {ur.dM_dot} |->
    With([i_max \in {Len(Mdot_raw) - ArgMax(Reverse(Mdot_raw)) - 1} |->
    With([ot_radii \in {Arr([i \in Cells |-> FGe(R[i], R[i_max + 1])])} |->
    With([sg \in {Sigma_G(sig, ep)} |->
    With([s \in {Arr([i \in Cells |-> FMul(Pow32(R[i]), sg[i])])} |->
    With([s_tot \in {FSum(Compress(s, ot_radii))} |->
    With([s_weight \in {Arr([i \in Cells |->
            FMul(FDiv(s[i], s_tot), IF ot_radii[i] THEN One ELSE Zero)])} |->
    With([M_dot_tot \in {FSum([i \in Cells |-> FMul(Mdot_raw[i], s_weight[i])])} |->
        [Mdot_raw |-> Mdot_raw,
         i_max |-> i_max,
         s_tot |-> s_tot,
         s_weight |-> s_weight,
         M_dot_eff |-> Arr([i \in Cells |-> FMul(M_dot_tot, s_weight[i])]),
         dM_gas |-> ur.dM_gas]])])])])])])])])])

\* -------------------------------------------------------------- entrainment
\* Facchini_limit(disc, Mdot); the constant factors sqrt(8/pi)/(4 pi) and
\* Msun/AU**2/yr are part of the unit of length of the result
Facchini_limit(Mdot_arr) ==
    Arr([i \in Cells |->
        LET F == FDiv(H[i], FSqrt(FAdd(FMul(H[i], H[i]), FMul(R[i], R[i]))))
            v_th == cs[i]
        IN FDiv(FMul(v_th, Mdot_arr[i]), FMul(Mstar, FMul(F, rho_s)))])

RECURSIVE FPow(_, _)
FPow(x, e) == IF e = 0 THEN One ELSE FMul(x, FPow(x, e - 1))

\* dust_entrainment(disc), with self._amax = a_ent
dust_entrainment(sig, ep, a_ent) ==
    With([sd \in {Sigma_D(sig, ep)} |->
    With([M_dust \in {Arr([p \in 1..2 |-> Arr([i \in Cells |-> FMul(sd[p][i], dA[i])])])} |->
    With([not_empty \in {NotEmpty(sig, ep)} |->
        Arr([i \in Cells |->
           IF not_empty[i]
           THEN FMul(FAdd(M_dust[1][i], M_dust[2][i]),
                     FMin(One, FPow(FDiv(a_ent[i], grain_size[i]), 4 - DustP)))
           ELSE Zero])])])])

\* the argument of Facchini_limit in weighted_removal:
\* np.sum(dM_dot)*(dM_dot>0)*(yr/Msun)
EntrainRate(dM_dot) ==
    With([total \in {FSum(dM_dot)} |->
        Arr([i \in Cells |->
            FMul(FMul(total, IF FGt(dM_dot[i], Zero) THEN One ELSE Zero),
                 Num(yr_Msun))])])

\* (self._amax left as it was)
new_amax_kept(am, dM_dot) == am
\* self._amax after weighted_removal
new_amax(am, dM_dot) == IF dusty THEN Facchini_limit(EntrainRate(dM_dot)) ELSE am

\* weighted_removal(disc, dt)
weighted_removal(sig, ep, am, dt) ==
    With([otw \in {optically_thin_weighting(sig, ep)} |->
    With([dM_dot \in {otw.M_dot_eff} |->
    With([dM_gas \in {otw.dM_gas} |->
    With([Sigma_D0 \in {Sigma_D(sig, ep)} |->
    With([sumD0 \in {Arr([i \in Cells |-> FAdd(Sigma_D0[1][i], Sigma_D0[2][i])])} |->
    With([not_dustless \in {Arr([i \in Cells |-> FGt(sumD0[i], Zero)])} |->
    With([idf \in {integ_dust_frac(ep)} |->
    With([f_m \in {Arr([i \in Cells |->
            IF not_dustless[i] THEN FDiv(ep[2][i], idf[i]) ELSE Zero])} |->
    With([am1 \in {new_amax(am, dM_dot)} |->
    With([M_ent \in {dust_entrainment(sig, ep, am1)} |->
    With([dM_evap \in {Arr([i \in Cells |-> FMul(dM_dot[i], dt)])} |->
    With([sig1 \in {Arr([i \in Cells |-> FSub(sig[i], FDiv(dM_evap[i], dA[i]))])} |->
    With([M_ent_w \in {Arr([i \in Cells |->
            IF FGt(dM_gas[i], Zero)
            THEN FDiv(FMul(M_ent[i], dM_evap[i]), dM_gas[i]) ELSE Zero])} |->
    With([sig2 \in {Arr([i \in Cells |-> FSub(sig1[i], FDiv(M_ent_w[i], dA[i]))])} |->
    With([not_empty \in {Arr([i \in Cells |-> FGt(sig2[i], Zero)])} |->
    With([new_dust_frac \in {Arr([i \in Cells |->
            FDiv(FSub(sumD0[i], FDiv(M_ent_w[i], dA[i])), sig2[i])])} |->
        [otw |-> otw,
         f_m |-> f_m,
         new_dust_frac |-> new_dust_frac,
         Sigma |-> IF dusty THEN sig2 ELSE sig1,
         eps |-> IF dusty
                 THEN <<[i \in Cells |-> IF not_empty[i]
                           THEN FMul(new_dust_frac[i], FSub(One, f_m[i]))
                           ELSE ep[1][i]],
                        [i \in Cells |-> IF not_empty[i]
                           THEN FMul(new_dust_frac[i], f_m[i]) ELSE ep[2][i]]>>
                 ELSE ep,
         amax |-> am1,
         Mwind_cum |-> IF dusty THEN FAdd(Mwind_cum, FSum(M_ent_w))
                       ELSE Mwind_cum]])])])])])])])])])])])])])])])])

\* ------------------------------------------------------------------- state
ZeroRow == [i \in Cells |-> Zero]
NoCall == [what |-> "none"]

\* the provider after __init__ and the disc the caller built, which holds
\* gas in some annulus
Init ==
    /\ kind \in {"Fixed"} \cup TableKinds
    /\ table \in IF kind = "Fixed" THEN {"none"} ELSE Tables
    /\ dusty \in BOOLEAN
    /\ Sigma \in [Cells -> {Num(x) : x \in Sigma0Set}]
    /\ \E i \in Cells : Sigma[i] # Zero
    /\ eps \in IF dusty
               THEN {<<[i \in Cells |-> Fin(1, 4)], [i \in Cells |-> Fin(1, 4)]>>,
                     <<[i \in Cells |-> Fin(1, 4)], ZeroRow>>}
               ELSE {<<ZeroRow, ZeroRow>>}
    /\ Mdot \in IF kind = "Fixed"
                THEN {[scalar |-> TRUE, v |-> <<Num(m)>>] : m \in {0, 1}}
                ELSE {[scalar |-> FALSE, v |-> <<>>]}
    /\ amax = [i \in Cells |-> IF kind = "Fixed" THEN Num(10) ELSE Zero]
    /\ Mwind_cum = Zero
    /\ err = "none"
    /\ ncalls = 0
    /\ last = NoCall

\* the discs a further call is explored from
Small(x) == IsFin(x) => (Abs(x.n) <= MaxMag /\ x.d <= MaxMag)
Explored ==
    /\ err = "none" /\ ncalls < MaxCalls
    /\ \A i \in Cells : Small(Sigma[i]) /\ Small(eps[1][i]) /\ Small(eps[2][i])

\* a call that ended in an exception before it touched the disc
Raise(e, dt) ==
    /\ err' = e
    /\ last' = [what |-> "raised", dt |-> dt]
    /\ UNCHANGED <<Sigma, eps, Mdot, amax, Mwind_cum>>

\* timescale_remove(disc, dt) with Track = True, as __call__ runs it
DoTimescale(dt) ==
    \E ur \in {unweighted_rates(Sigma, eps, TRUE)} :
       IF ur.raised THEN Raise("IndexError", dt)
       ELSE \E ts \in {get_timescale(Sigma, eps, ur)} :
            \E res \in {timescale_remove(Sigma, ts, dt)} :
            /\ Sigma' = res.Sigma
            /\ Mdot' = ur.Mdot
            /\ last' = [what |-> "timescale", dt |-> dt, Sigma0 |-> Sigma, amax0 |-> amax,
                        not_empty |-> NotEmpty(Sigma, eps),
                        dM_gas |-> ts.dM_gas, dM_evap |-> ts.dM_evap,
                        Dt |-> ts.Dt, empty |-> res.empty, marginal |-> res.marginal]
            /\ UNCHANGED <<eps, amax, Mwind_cum, err>>

\* weighted_removal(disc, dt) as __call__ runs it
DoWeighted(dt) ==
    \E res \in {weighted_removal(Sigma, eps, amax, dt)} :
       /\ Sigma' = res.Sigma
       /\ eps' = res.eps
       /\ amax' = res.amax
       /\ Mwind_cum' = res.Mwind_cum
       /\ last' = [what |-> "weighted", dt |-> dt, Sigma0 |-> Sigma, eps0 |-> eps,
                   amax0 |-> amax, not_empty |-> NotEmpty(Sigma, eps),
                   Mdot_raw |-> res.otw.Mdot_raw, i_max |-> res.otw.i_max,
                   s_tot |-> res.otw.s_tot, s_weight |-> res.otw.s_weight,
                   M_dot_eff |-> res.otw.M_dot_eff,
                   f_m |-> res.f_m, new_dust_frac |-> res.new_dust_frac]
       /\ UNCHANGED <<Mdot, err>>

\* __call__ on a FixedExternalEvaporation: `if (self._Mdot > 0)` raises
\* ValueError once self._Mdot is an array of more than one element
CallFixed(dt) ==
    /\ kind = "Fixed" /\ Explored
    /\ ncalls' = ncalls + 1
    /\ UNCHANGED <<kind, table, dusty>>
    /\ IF Len(Mdot.v) > 1 THEN Raise("ValueError", dt)
       ELSE IF FGt(Mdot.v[1], Zero) THEN DoTimescale(dt)
       ELSE /\ last' = [what |-> "skipped", dt |-> dt]
            /\ UNCHANGED <<Sigma, eps, Mdot, amax, Mwind_cum, err>>

\* __call__ on a FRIEDExternalEvaporationM
CallFRIED_M(dt) ==
    /\ kind = "FRIED_M" /\ Explored
    /\ ncalls' = ncalls + 1
    /\ UNCHANGED <<kind, table, dusty>>
    /\ DoTimescale(dt)

\* __call__ on a FRIEDExternalEvaporationS or FRIEDExternalEvaporationMS
CallWeighted(dt) ==
    /\ kind \in {"FRIED_S", "FRIED_MS"} /\ Explored
    /\ ncalls' = ncalls + 1
    /\ UNCHANGED <<kind, table, dusty>>
    /\ DoWeighted(dt)

Next ==
    \E t \in DtSet :
        \/ CallFixed(Num(t))
        \/ CallFRIED_M(Num(t))
        \/ CallWeighted(Num(t))

Spec == Init /\ [][Next]_vars

\* ------------------------------------------------------------------ claims
Removed == last.what \in {"timescale", "weighted"}

\* C1: after a removal call on a disc whose Sigma entries are all >= 0,
\* every entry of Sigma is >= 0.
C1_SigmaNonNegative ==
    (Removed /\ \A i \in Cells : FGe(last.Sigma0[i], Zero))
        => \A i \in Cells : FGe(Sigma[i], Zero)

\* C2: a removal call with dt = 0 leaves every entry of Sigma as it was.
C2_ZeroDtKeepsSigma ==
    (Removed /\ last.dt = Zero) => \A i \in Cells : FEq(Sigma[i], last.Sigma0[i])

\* C3: when timescale_remove leaves a marginal annulus (one that holds gas),
\* its Sigma is multiplied by (Dt_marginal - dt) / (its own mass/rate), a
\* factor in [0,1], and the annuli interior to it keep their Sigma.
C3_MarginalFraction ==
    (last.what = "timescale" /\ last.marginal # 0 /\ last.not_empty[last.marginal])
        => LET h == last.marginal
               own == FDiv(last.dM_gas[h], last.dM_evap[h])
               frac == FDiv(FSub(last.Dt[h], last.dt), own)
           IN /\ FGe(frac, Zero) /\ FGe(One, frac)
              /\ FEq(Sigma[h], FMul(last.Sigma0[h], frac))
              /\ \A i \in 1..(h - 1) : FEq(Sigma[i], last.Sigma0[i])

\* C4: on a Fixed provider with a positive configured rate no call raises,
\* and self._Mdot stays the configured scalar.
C4_FixedRateKept ==
    (kind = "Fixed" /\ FGt(Mdot.v[1], Zero)) => (err = "none" /\ Mdot.scalar)

\* C5: weighted_removal on a disc without dust removes a total gas mass
\* equal to the sum of the weighted rates times dt.
C5_MassRemoved ==
    (last.what = "weighted" /\ ~dusty)
        => FEq(FSum([i \in Cells |-> FMul(FSub(last.Sigma0[i], Sigma[i]), dA[i])]),
               FMul(FSum(last.M_dot_eff), last.dt))

\* C5, where the weights are normalised by a finite, nonzero s_tot: the
\* mass removed is the summed rate times dt, also when it exceeds what an
\* annulus holds.
Normalised == IsFin(last.s_tot) /\ last.s_tot # Zero
MassRemovedWhenNormalised ==
    (last.what = "weighted" /\ ~dusty /\ Normalised)
        => FEq(FSum([i \in Cells |-> FMul(FSub(last.Sigma0[i], Sigma[i]), dA[i])]),
               FMul(FSum(last.M_dot_eff), last.dt))
OverRemoved ==
    /\ last.what = "weighted" /\ ~dusty /\ Normalised
    /\ \E i \in Cells : FGt(last.Sigma0[i], Zero) /\ FGt(Zero, Sigma[i])

\* C6: the transition index is the outermost annulus attaining the maximum
\* raw rate, the weights strictly inside it are exactly 0, and the weights
\* at or beyond it sum to 1 when some annulus at or beyond it has gas.
C6_Weights ==
    last.what = "weighted"
        => LET im == last.i_max + 1
               outer == [i \in Cells |-> i >= im]
           IN /\ \A j \in Cells : ~FGt(last.Mdot_raw[j], last.Mdot_raw[im])
              /\ \A j \in (im + 1)..NCells : FGt(last.Mdot_raw[im], last.Mdot_raw[j])
              /\ \A i \in 1..(im - 1) : FEq(last.s_weight[i], Zero)
              /\ (\E j \in im..NCells : last.not_empty[j])
                    => FEq(FSum(Compress(last.s_weight, outer)), One)

\* C6, where the weights are normalised by a finite, nonzero s_tot
WeightsWhenNormalised ==
    (last.what = "weighted" /\ Normalised)
        => LET im == last.i_max + 1
               outer == [i \in Cells |-> i >= im]
           IN /\ \A j \in Cells : ~FGt(last.Mdot_raw[j], last.Mdot_raw[im])
              /\ \A j \in (im + 1)..NCells : FGt(last.Mdot_raw[im], last.Mdot_raw[j])
              /\ \A i \in 1..(im - 1) : FEq(last.s_weight[i], Zero)
              /\ FEq(FSum(Compress(last.s_weight, outer)), One)
InteriorTransition ==
    /\ last.what = "weighted" /\ Normalised
    /\ last.i_max + 1 \in 2..(NCells - 1)

\* C7: after weighted_removal on a dusty disc an annulus the call left without
\* positive Sigma has both dust fractions 0, and an annulus with positive
\* Sigma has the fractions new_dust_frac*(1-f_m) and new_dust_frac*f_m.
C7_DustFractions ==
    (last.what = "weighted" /\ dusty)
        => \A i \in Cells :
              IF FGt(Sigma[i], Zero)
              THEN /\ eps[1][i] = FMul(last.new_dust_frac[i], FSub(One, last.f_m[i]))
                   /\ eps[2][i] = FMul(last.new_dust_frac[i], last.f_m[i])
              ELSE FGt(last.Sigma0[i], Zero)
                     => (FEq(eps[1][i], Zero) /\ FEq(eps[2][i], Zero))

\* the Facchini limit of the rates a call worked with
CallLimit ==
    Facchini_limit(EntrainRate(IF last.what = "weighted" THEN last.M_dot_eff
                               ELSE last.dM_evap))

\* C8: every removing call of a table-based provider sets amax to the
\* Facchini limit computed in that call.
C8_AmaxRecomputed ==
    (Removed /\ kind \in TableKinds) => amax = CallLimit

\* C8 as amended: a weighted_removal call on a dusty disc sets amax to the
\* Facchini limit of its summed weighted rate; a weighted_removal call on a
\* disc without dust and a timescale_remove call leave amax as it was.
C8_AmaxWhenDusty ==
    Removed => IF last.what = "weighted" /\ dusty THEN amax = CallLimit
               ELSE amax = last.amax0

C8_Witness ==
    last.what = "weighted" /\ dusty /\ amax # last.amax0
        /\ \E i \in Cells : FGt(amax[i], Zero)

\* C9: the annuli timescale_remove empties form a run that ends at the
\* outermost annulus, and no annulus is emptied while an annulus exterior
\* to it still holds mass.
C9_OutermostFirst ==
    last.what = "timescale"
        => \A i \in Cells : \A j \in (i + 1)..NCells :
              /\ last.empty[i] => (last.empty[j] /\ FEq(Sigma[j], Zero))
              /\ (FGt(last.Sigma0[i], Zero) /\ FEq(Sigma[i], Zero))
                    => ~FGt(Sigma[j], Zero)

C9_Witness ==
    /\ last.what = "timescale"
    /\ \E i \in Cells : /\ last.empty[i] /\ FGt(last.Sigma0[i], Zero)
                        /\ \E j \in 1..(i - 1) : FGt(Sigma[j], Zero)

\* C10: Dt[i] is the sum of mass_j/rate_j over the gas-bearing annuli j >= i,
\* whatever the pattern of gas-empty annuli.
C10_CumulativeTime ==
    last.what = "timescale"
        => \A i \in Cells :
              FEq(last.Dt[i],
                  FSum([j \in 1..(NCells - i + 1) |->
                          IF last.not_empty[i + j - 1]
                          THEN FDiv(last.dM_gas[i + j - 1], last.dM_evap[i + j - 1])
                          ELSE Zero]))
====
